---- MODULE Spec2Model ----
(***************************************************************************)
(* Model of the SAC-D / Aquarius telemetry parser: PacketParser            *)
(* (src/src/parser.py) and its two subclasses SACDPacket (src/src/sacd.py) *)
(* and AquariusPacket (src/src/aquarius.py).                               *)
(*                                                                         *)
(* Bytes are the integers 0..255, a bytes object is a sequence of bytes.   *)
(* Python indexes from 0 and TLA+ sequences from 1: the element the code   *)
(* calls s[i] is s[i + 1] here.  The 4000-byte frame of the two reference  *)
(* formats is scaled down (same 13 sections, same order, CRC of 2 bytes    *)
(* last); the code is generic in the section sizes.                        *)
(***************************************************************************)
EXTENDS Integers, Sequences, FiniteSets, TLC

VARIABLES
    byteS,         \* sacd.py class body: rounds of `for byte in range(256)` done
    byteA,         \* aquarius.py class body: rounds of `for byte in range(256)` done
    data,          \* the binary stream handed to the constructors
    packet_size,   \* the packet_size handed to the constructors
    sections,      \* the sections argument of a plain PacketParser (NoneSections: None)
    crc_function,  \* the crc_function argument of a plain PacketParser
    endianness,    \* the endianness argument of a plain PacketParser
    pc,            \* per class: "absent", "new" (before __init__), "ready", "raised"
    call,          \* per class: the last call made on the parser of that class
    ret,           \* per class: what that call returned or raised
    packets,       \* the caller's packet list (main.py's variable `packets`)
    base,          \* the stream before a bit of it was flipped
    flip           \* the flipped bit: 0 for none, else 8 * byte index + bit + 1

vars == <<byteS, byteA, data, packet_size, sections, crc_function, endianness,
          pc, call, ret, packets, base, flip>>

-----------------------------------------------------------------------------
(* Bounds of the model *)

\* most packets in a stream of a reference format
MaxPackets == 2
\* longest stream handed to a plain PacketParser
MaxLen == 4
\* largest packet_size handed to a plain PacketParser
MaxPacketSize == 3
\* most packets in a list handed to order_packets / decoding
MaxList == 3
\* longest byte string handed directly to crc16_buypass
MaxCrcLen == 1

-----------------------------------------------------------------------------
(* Python built-ins *)

Min(a, b) == IF a < b THEN a ELSE b

\* s[a:b] for 0 <= a, 0 <= b: the slice is clamped to the sequence
Slice(s, a, b) == SubSeq(s, Min(a, Len(s)) + 1, Min(b, Len(s)))

RECURSIVE Join(_)
\* b"".join(parts)
Join(parts) == IF parts = <<>> THEN <<>> ELSE Head(parts) \o Join(Tail(parts))

RECURSIVE Sum(_)
\* sum(values)
Sum(values) == IF values = <<>> THEN 0 ELSE Head(values) + Sum(Tail(values))

RECURSIVE Xor(_, _)
\* a ^ b for a, b >= 0
Xor(a, b) ==
    IF a = 0 THEN b
    ELSE IF b = 0 THEN a
    ELSE (((a % 2) + (b % 2)) % 2) + 2 * Xor(a \div 2, b \div 2)

RECURSIVE Pow2(_)
Pow2(n) == IF n = 0 THEN 1 ELSE 2 * Pow2(n - 1)

Reverse(s) == [i \in 1..Len(s) |-> s[Len(s) + 1 - i]]

RECURSIVE BigUnsigned(_)
BigUnsigned(bytes) ==
    IF bytes = <<>> THEN 0
    ELSE 256 * BigUnsigned(SubSeq(bytes, 1, Len(bytes) - 1)) + bytes[Len(bytes)]

\* int.from_bytes(bytes, byteorder, signed=signed)
FromBytes(bytes, byteorder, signed) ==
    LET u == BigUnsigned(IF byteorder = "big" THEN bytes ELSE Reverse(bytes))
    IN  IF signed /\ bytes # <<>> /\ u >= Pow2(8 * Len(bytes) - 1)
        THEN u - Pow2(8 * Len(bytes))
        ELSE u

\* Python evaluates an argument before the call it is passed to: x is
\* evaluated to a value, then F is applied to that value
Strict(x, F(_)) == CHOOSE r \in {F(v) : v \in {x}} : TRUE

Return(v) == [kind |-> "return", value |-> v]
Raise(exc, msg) == [kind |-> "raise", exc |-> exc, msg |-> msg]
NoCall == [op |-> "none"]
NoRet == [kind |-> "none"]

-----------------------------------------------------------------------------
(* CRC-16/BUYPASS: the two class-level tables and the two checksum functions *)

POLY == 32773
TableSize == 256

RECURSIVE SACD_TableSteps(_, _)
\* sacd.py: the inner loop `for _ in range(8)` on the register crc
SACD_TableSteps(crc, n) ==
    IF n = 0 THEN crc
    ELSE Strict(IF (crc \div 32768) % 2 = 1
                THEN Xor(crc * 2, POLY) % 65536
                ELSE (crc * 2) % 65536,
                LAMBDA next : SACD_TableSteps(next, n - 1))

\* a faulty table entry: one shift/XOR round short
SACD_TableEntrySevenSteps(byte) == SACD_TableSteps(byte * 256, 7)

\* sacd.py: the value appended for `byte`
SACD_TableEntry(byte) == SACD_TableSteps(byte * 256, 8)

RECURSIVE Aquarius_TableSteps(_, _)
\* aquarius.py: the inner loop `for _ in range(8)` on the register crc
Aquarius_TableSteps(crc, n) ==
    IF n = 0 THEN crc
    ELSE Strict(IF (crc \div 32768) % 2 = 1
                THEN Xor(crc * 2, POLY) % 65536
                ELSE (crc * 2) % 65536,
                LAMBDA next : Aquarius_TableSteps(next, n - 1))

\* aquarius.py: the value appended for `byte`
Aquarius_TableEntry(byte) == Aquarius_TableSteps(byte * 256, 8)

\* the lists the two loops have built once all their rounds are done
SACD_FullTable == [i \in 1..TableSize |-> SACD_TableEntry(i - 1)]
Aquarius_FullTable == [i \in 1..TableSize |-> Aquarius_TableEntry(i - 1)]

\* SACDPacket._CRC16_BUYPASS_TABLE: one entry appended per round done
SACD_CRC16_BUYPASS_TABLE ==
    IF byteS = TableSize THEN SACD_FullTable ELSE SubSeq(SACD_FullTable, 1, byteS)

\* AquariusPacket._CRC16_BUYPASS_TABLE: one entry appended per round done
Aquarius_CRC16_BUYPASS_TABLE ==
    IF byteA = TableSize THEN Aquarius_FullTable ELSE SubSeq(Aquarius_FullTable, 1, byteA)

RECURSIVE SACD_crc16_loop(_, _)
\* sacd.py: the loop `for byte in data` on the register crc
SACD_crc16_loop(bytes, crc) ==
    IF bytes = <<>> THEN crc
    ELSE LET idx == Xor(crc \div 256, Head(bytes)) % 256
         IN  Strict(Xor(crc * 256, SACD_CRC16_BUYPASS_TABLE[idx + 1]) % 65536,
                    LAMBDA next : SACD_crc16_loop(Tail(bytes), next))

\* SACDPacket.crc16_buypass(data, init_crc)
SACD_crc16_buypass(bytes, init_crc) == SACD_crc16_loop(bytes, init_crc)

RECURSIVE Aquarius_crc16_loop(_, _)
\* aquarius.py: the loop `for byte in data` on the register crc
Aquarius_crc16_loop(bytes, crc) ==
    IF bytes = <<>> THEN crc
    ELSE LET idx == Xor(crc \div 256, Head(bytes)) % 256
         IN  Strict(Xor(crc * 256, Aquarius_CRC16_BUYPASS_TABLE[idx + 1]) % 65536,
                    LAMBDA next : Aquarius_crc16_loop(Tail(bytes), next))

\* AquariusPacket.crc16_buypass(data, init_crc)
Aquarius_crc16_buypass(bytes, init_crc) == Aquarius_crc16_loop(bytes, init_crc)

\* calling the object stored in self.crc_function (callable(None) is False)
Callable(fn) == fn # "None"
ApplyCrc(fn, bytes) ==
    IF fn = "SACDPacket.crc16_buypass" THEN SACD_crc16_buypass(bytes, 0)
    ELSE Aquarius_crc16_buypass(bytes, 0)

-----------------------------------------------------------------------------
(* Section layouts.  A dict is a sequence of <<key, value>> pairs with      *)
(* distinct keys, in insertion order; None is kept apart from the empty     *)
(* dict.                                                                    *)

NoneSections == [isNone |-> TRUE, items |-> <<>>]
Dict(items) == [isNone |-> FALSE, items |-> items]

\* `not self.sections`: None and the empty dict are both falsy
Falsy(secs) == secs.isNone \/ secs.items = <<>>
Keys(secs) == [i \in 1..Len(secs.items) |-> secs.items[i][1]]
Values(secs) == [i \in 1..Len(secs.items) |-> secs.items[i][2]]
KeySet(secs) == {secs.items[i][1] : i \in 1..Len(secs.items)}

\* frame_parts of SACDPacket, scaled down from 4000 bytes
SACD_frame_parts ==
    Dict(<< <<"IDS", 1>>, <<"FRAME#", 1>>, <<"HK_ID", 1>>, <<"CDH", 3>>,
            <<"MM1", 1>>, <<"MM2", 1>>, <<"ACS", 1>>, <<"PCS", 2>>,
            <<"AQUARIUS", 1>>, <<"HSC", 1>>, <<"TDP", 1>>, <<"PAD", 1>>,
            <<"CRC", 2>> >>)

\* frame_parts of AquariusPacket, scaled down the same way
Aquarius_frame_parts ==
    Dict(<< <<"IDS", 1>>, <<"FRAME#", 1>>, <<"HK_ID", 1>>, <<"CDH", 3>>,
            <<"MM1", 1>>, <<"MM2", 1>>, <<"ACS", 1>>, <<"PCS", 2>>,
            <<"AQUARIUS", 1>>, <<"HSC", 1>>, <<"TDP", 1>>, <<"PAD", 1>>,
            <<"CRC", 2>> >>)

\* the default packet_size of SACDPacket.__init__, scaled with the frame
FrameSize == Sum(Values(SACD_frame_parts))

\* SACDPacket._fields, scaled with the frame; k and offset are exact
\* fractions <<numerator, denominator>> (0.01873128 and -38.682956)
SACD_fields ==
    [vBatAverage |-> [section |-> "PCS", position |-> 1, size |-> 1,
                      k |-> <<234141, 12500000>>,
                      offset |-> <<-9670739, 250000>>, unit |-> "V"],
     OBT         |-> [section |-> "CDH", position |-> 1, size |-> 2,
                      unit |-> "GPS Time"],
     OBT_s       |-> [section |-> "CDH", position |-> 1, size |-> 2,
                      unit |-> "Seconds"]]

Classes == {"PacketParser", "SACDPacket", "AquariusPacket"}

\* the object PacketParser.__init__ leaves behind for class c
Self(c) ==
    [cls          |-> c,
     data         |-> data,
     packet_size  |-> packet_size,
     size         |-> Len(data),
     endianness   |-> IF c = "PacketParser" THEN endianness ELSE "big",
     sections     |-> CASE c = "SACDPacket" -> SACD_frame_parts
                        [] c = "AquariusPacket" -> Aquarius_frame_parts
                        [] OTHER -> sections,
     crc_function |-> CASE c = "SACDPacket" -> "SACDPacket.crc16_buypass"
                        [] c = "AquariusPacket" -> "None"
                        [] OTHER -> crc_function]

\* a faulty framing check: raises only for a stream shorter than one packet
InitRaisesWhenShort(self) == self.size < self.packet_size

\* PacketParser.__init__: the framing check
InitRaises(self) == self.size % self.packet_size # 0

-----------------------------------------------------------------------------
(* Packet extraction and CRC validation *)

RECURSIVE OffsetsFrom(_, _)
OffsetsFrom(sizes, pos) ==
    IF sizes = <<>> THEN <<>>
    ELSE <<pos>> \o OffsetsFrom(Tail(sizes), pos + Head(sizes))

\* faulty offsets: counted from 1 instead of 0
section_offsets_from_one(self) == OffsetsFrom(Values(self.sections), 1)

\* PacketParser._section_offsets
section_offsets(self) == OffsetsFrom(Values(self.sections), 0)

\* the raw packets: data[i:i + packet_size] for i in range(0, size, packet_size)
RawPackets(self) ==
    [j \in 1..((self.size + self.packet_size - 1) \div self.packet_size) |->
        Slice(self.data, (j - 1) * self.packet_size, j * self.packet_size)]

\* the dict comprehension over zip(keys, values, offsets) for one raw packet;
\* a later pair of the zip would overwrite an earlier one with the same key
Structure(self, packet) ==
    LET ks == Keys(self.sections)
        vs == Values(self.sections)
        os == section_offsets(self)
    IN  [name \in KeySet(self.sections) |->
            LET i == CHOOSE i \in 1..Len(ks) :
                         ks[i] = name /\ \A j \in 1..Len(ks) : ks[j] = name => j <= i
            IN  Slice(packet, os[i], os[i] + vs[i])]

\* a faulty CRC input: the padding left out along with the CRC section
DataForCrcSkippingPad(secs, pkt) ==
    Join([i \in 1..Len(secs.items) |->
             IF secs.items[i][1] \in {"CRC", "PAD"} THEN <<>> ELSE pkt[secs.items[i][1]]])

\* b"".join(pkt[name] for name in self.sections if name != "CRC")
DataForCrc(secs, pkt) ==
    Join([i \in 1..Len(secs.items) |->
             IF secs.items[i][1] = "CRC" THEN <<>> ELSE pkt[secs.items[i][1]]])

CrcMismatch(i, expected, computed) ==
    [kind |-> "raise", exc |-> "RuntimeError", msg |-> "CRC mismatch in packet",
     index |-> i, expected |-> expected, got |-> computed]

RECURSIVE validate_crc_loop(_, _, _)
\* PacketParser._validate_crc: the loop `for i, pkt in enumerate(packets, start=1)`
validate_crc_loop(self, pkts, i) ==
    IF i > Len(pkts) THEN Return("None")
    ELSE LET pkt == pkts[i]
             data_for_crc == DataForCrc(self.sections, pkt)
             expected_crc == FromBytes(pkt["CRC"], self.endianness, FALSE)
             computed_crc == ApplyCrc(self.crc_function, data_for_crc)
         IN  IF computed_crc # expected_crc
             THEN CrcMismatch(i, expected_crc, computed_crc)
             ELSE validate_crc_loop(self, pkts, i + 1)

\* PacketParser._validate_crc
validate_crc(self, pkts) ==
    IF ~Callable(self.crc_function)
    THEN Raise("NotImplementedError", "CRC function not defined.")
    ELSE IF "CRC" \notin KeySet(self.sections)
    THEN Raise("NotImplementedError", "CRC field missing in sections map.")
    ELSE validate_crc_loop(self, pkts, 1)

\* a faulty structure check: only a layout longer than the packet is refused
LayoutTooLong(self) == Sum(Values(self.sections)) > self.packet_size

\* the structure check: sum(self.sections.values()) != self.packet_size
LayoutMismatch(self) == Sum(Values(self.sections)) # self.packet_size

\* PacketParser.get_packets
PacketParser_get_packets(self, packets_with_sections, check_crc) ==
    IF check_crc /\ (~packets_with_sections \/ Falsy(self.sections))
    THEN Raise("RuntimeError", "Cannot compute CRC without sections defined.")
    ELSE LET pkts == RawPackets(self)
         IN  IF ~packets_with_sections \/ Falsy(self.sections)
             THEN Return(pkts)
             ELSE IF LayoutMismatch(self)
             THEN Raise("RuntimeError", "Section layout does not match packet size.")
             ELSE LET structured_packets ==
                          [j \in 1..Len(pkts) |-> Structure(self, pkts[j])]
                      checked == IF check_crc
                                 THEN validate_crc(self, structured_packets)
                                 ELSE Return("None")
                  IN  IF checked.kind = "raise" THEN checked
                      ELSE Return(structured_packets)

RECURSIVE Aquarius_crc_loop(_, _, _)
\* AquariusPacket.get_packets: the loop `for i, pkt in enumerate(packets)`
Aquarius_crc_loop(self, pkts, i) ==
    IF i >= Len(pkts) THEN Return(pkts)
    ELSE LET pkt == pkts[i + 1]
             crc_data == DataForCrc(Aquarius_frame_parts, pkt)
             expected_crc == FromBytes(pkt["CRC"], self.endianness, FALSE)
             computed_crc == Aquarius_crc16_buypass(crc_data, 0)
         IN  IF computed_crc # expected_crc
             THEN CrcMismatch(i, expected_crc, computed_crc)
             ELSE Aquarius_crc_loop(self, pkts, i + 1)

\* `super().get_packets()`: PacketParser.get_packets has two required
\* positional parameters and no defaults, so binding the call fails
super_get_packets_noargs(self) ==
    Raise("TypeError", "get_packets() missing 2 required positional arguments")

\* AquariusPacket.get_packets
Aquarius_get_packets(self, packets_with_sections, check_crc) ==
    LET pkts == super_get_packets_noargs(self)
    IN  IF pkts.kind = "raise" THEN pkts
        ELSE IF ~packets_with_sections \/ ~check_crc
                \/ "CRC" \notin KeySet(Aquarius_frame_parts)
        THEN pkts
        ELSE Aquarius_crc_loop(self, pkts.value, 0)

\* obj.get_packets(...): method resolution by class
get_packets(self, packets_with_sections, check_crc) ==
    IF self.cls = "AquariusPacket"
    THEN Aquarius_get_packets(self, packets_with_sections, check_crc)
    ELSE PacketParser_get_packets(self, packets_with_sections, check_crc)

-----------------------------------------------------------------------------
(* Telemetry extraction.  A physical value is an exact fraction             *)
(* [num, den] with den > 0.                                                 *)

RECURSIVE Gcd(_, _)
Gcd(a, b) == IF b = 0 THEN a ELSE Gcd(b, a % b)

\* value * k + offset, for an integer value and fractions k and offset
Affine(value, k, offset) ==
    LET l == (k[2] \div Gcd(k[2], offset[2])) * offset[2]
    IN  [num |-> value * k[1] * (l \div k[2]) + offset[1] * (l \div offset[2]),
         den |-> l]

\* a < b on physical values
Less(a, b) == a.num * b.den < b.num * a.den

\* d.get(key, default)
Get(d, key, default) == IF key \in DOMAIN d THEN d[key] ELSE default

\* hasattr(self, "_fields"): only SACDPacket defines it
HasFields(self) == self.cls = "SACDPacket"
Fields(self) == SACD_fields

RequireFieldsError(self) ==
    Raise("RuntimeError", "must define '_fields' to use telemetry functions.")

\* a faulty length check: a short slice is let through
SliceTooLong(raw, field) == Len(raw) > field.size

\* the length check on the slice: len(raw) != field["size"]
SizeMismatch(raw, field) == Len(raw) # field.size

\* PacketParser.get_telemetry_value_by_name
get_telemetry_value_by_name(self, field_name, packet) ==
    IF ~HasFields(self) THEN RequireFieldsError(self)
    ELSE IF field_name \notin DOMAIN Fields(self)
    THEN Raise("ValueError", "Invalid field")
    ELSE IF Falsy(self.sections)
    THEN Raise("NotImplementedError", "No sections defined for telemetry extraction.")
    ELSE LET field == Fields(self)[field_name]
         IN  IF field.section \notin DOMAIN packet
             THEN Raise("KeyError", "Section not found in packet.")
             ELSE LET raw == Slice(packet[field.section], field.position,
                                   field.position + field.size)
                  IN  IF SizeMismatch(raw, field)
                      THEN Raise("ValueError", "size mismatch")
                      ELSE LET value == FromBytes(raw,
                                            Get(field, "endianness", self.endianness),
                                            Get(field, "signed", FALSE))
                           IN  Return(Affine(value, Get(field, "k", <<1, 1>>),
                                             Get(field, "offset", <<0, 1>>)))

RECURSIVE FirstRaise(_)
\* what evaluating a list of results in order does: the first raise, if any
FirstRaise(rs) ==
    IF rs = <<>> THEN NoRet
    ELSE IF Head(rs).kind = "raise" THEN Head(rs)
    ELSE FirstRaise(Tail(rs))

\* a faulty map: packets that fail to decode are dropped from the result
DecodeEachDroppingFailures(self, field_name, pkts) ==
    LET rs == [i \in 1..Len(pkts) |->
                  get_telemetry_value_by_name(self, field_name, pkts[i])]
        ok == SelectSeq(rs, LAMBDA r : r.kind = "return")
    IN  Return([i \in 1..Len(ok) |-> ok[i].value])

\* [self.get_telemetry_value_by_name(field_name, pkt) for pkt in packets]
DecodeEach(self, field_name, pkts) ==
    LET rs == [i \in 1..Len(pkts) |->
                  get_telemetry_value_by_name(self, field_name, pkts[i])]
    IN  IF FirstRaise(rs).kind = "raise" THEN FirstRaise(rs)
        ELSE Return([i \in 1..Len(pkts) |-> rs[i].value])

\* PacketParser.get_all_telemetry_values_by_name
get_all_telemetry_values_by_name(self, field_name, pkts, return_unit) ==
    IF ~HasFields(self) THEN RequireFieldsError(self)
    ELSE IF return_unit /\ field_name \notin DOMAIN Fields(self)
    THEN Raise("KeyError", field_name)
    ELSE IF return_unit /\ "unit" \notin DOMAIN Fields(self)[field_name]
    THEN Raise("RuntimeError", "missing 'unit' definition.")
    ELSE LET values == DecodeEach(self, field_name, pkts)
         IN  IF values.kind = "raise" THEN values
             ELSE IF return_unit
             THEN Return(<<values.value, Fields(self)[field_name].unit>>)
             ELSE values

-----------------------------------------------------------------------------
(* Packet ordering *)

\* SACDPacket.get_ordering_key
get_ordering_key(self, packet) == get_telemetry_value_by_name(self, "OBT", packet)

\* a faulty placement: ahead of the elements of equal key (not stable)
InsertPosBeforeEquals(keys, k) ==
    Cardinality({j \in 1..Len(keys) : Less(keys[j], k)}) + 1

\* where sorted(), a stable sort, puts an element of key k among the keys
\* placed so far: behind every element whose key is not greater
InsertPos(keys, k) ==
    Cardinality({j \in 1..Len(keys) : ~Less(k, keys[j])}) + 1

RECURSIVE StableSort(_, _, _)
\* sorted(items, key=...): the elements of todo inserted, in order, into done;
\* items and sorted lists are sequences of <<key, element>>
StableSort(todo, done, n) ==
    IF n > Len(todo) THEN done
    ELSE LET p == InsertPos([j \in 1..Len(done) |-> done[j][1]], todo[n][1])
         IN  Strict(SubSeq(done, 1, p - 1) \o <<todo[n]>> \o SubSeq(done, p, Len(done)),
                    LAMBDA next : StableSort(todo, next, n + 1))

\* the only class with a get_ordering_key method is SACDPacket
HasOrderingKey(self) == self.cls = "SACDPacket"

\* PacketParser.order_packets
order_packets(self, pkts) ==
    IF ~HasOrderingKey(self)
    THEN Raise("RuntimeError", "must define a 'get_ordering_key(packet)' method.")
    ELSE LET ks == [i \in 1..Len(pkts) |-> get_ordering_key(self, pkts[i])]
         IN  IF FirstRaise(ks).kind = "raise" THEN FirstRaise(ks)
             ELSE LET out == StableSort([i \in 1..Len(pkts) |-> <<ks[i].value, pkts[i]>>],
                                        <<>>, 1)
                  IN  Return([i \in 1..Len(out) |-> out[i][2]])

-----------------------------------------------------------------------------
(* Inputs *)

RECURSIVE SeqsUpTo(_, _)
\* the sequences over S of length at most n
SeqsUpTo(S, n) ==
    IF n = 0 THEN {<<>>}
    ELSE LET shorter == SeqsUpTo(S, n - 1)
         IN  shorter \cup {Append(q, x) : q \in {r \in shorter : Len(r) = n - 1}, x \in S}

\* bytes of the streams handed to a plain PacketParser
SplitBytes == {0, 1}

\* layouts handed to a plain PacketParser
GenericLayouts ==
    {NoneSections,
     Dict(<<>>),
     Dict(<< <<"A", 1>> >>),
     Dict(<< <<"A", 1>>, <<"B", 1>> >>),
     Dict(<< <<"A", 1>>, <<"CRC", 2>> >>),
     Dict(<< <<"CRC", 1>>, <<"A", 1>> >>),
     Dict(<< <<"A", 2>>, <<"B", 0>>, <<"C", 1>> >>)}

\* v with its binary digit of weight w (a power of two) inverted
Invert(v, w) == IF (v \div w) % 2 = 1 THEN v - w ELSE v + w

RECURSIVE RefBits(_, _, _)
\* bit-by-bit CRC-16 (polynomial x^16 + x^15 + x^2 + 1, no reflection): the
\* register crc after the n high bits of byte went in, most significant first
RefBits(crc, byte, n) ==
    IF n = 0 THEN crc
    ELSE LET shifted == (crc * 2) % 65536
         IN  Strict(IF crc \div 32768 # byte \div 128
                    THEN Invert(Invert(Invert(shifted, 32768), 4), 1)
                    ELSE shifted,
                    LAMBDA next : RefBits(next, (byte * 2) % 256, n - 1))

RECURSIVE RefCrc(_, _)
\* the bit-by-bit checksum of bytes from register crc
RefCrc(bytes, crc) ==
    IF bytes = <<>> THEN crc
    ELSE Strict(RefBits(crc, Head(bytes), 8),
                LAMBDA next : RefCrc(Tail(bytes), next))

\* the bit-by-bit checksum of every single byte
RefTable == [b \in 0..(TableSize - 1) |-> RefBits(0, b, 8)]

\* a frame body (everything before the CRC section): every byte differs from
\* its neighbours; x and y are the last two bytes of CDH, t the FRAME# byte
Body(x, y, t) ==
    [i \in 1..(FrameSize - 2) |->
        CASE i = 2 -> t
          [] i = 5 -> x
          [] i = 6 -> y
          [] OTHER -> (i * 37) % 256]

\* a frame: the body and two CRC bytes, right (big-endian) or off by one
Frame(body, good) ==
    LET c == RefCrc(body, 0)
        w == IF good THEN c ELSE (c + 1) % 65536
    IN  body \o <<w \div 256, w % 256>>

\* the stream with bit number b (1-based, MSB of byte 0 first) flipped
FlipBit(stream, b) ==
    IF b = 0 THEN stream
    ELSE LET i == ((b - 1) \div 8) + 1
             m == Pow2(7 - ((b - 1) % 8))
         IN  [stream EXCEPT ![i] = Xor(@, m)]

\* packets a caller may hand back: the list itself, or the list with one packet
\* missing its CDH section or carrying a CDH section cut short
Tampered(pkt) ==
    {[n \in (DOMAIN pkt) \ {"CDH"} |-> pkt[n]]} \cup
    (IF "CDH" \in DOMAIN pkt
     THEN {[pkt EXCEPT !["CDH"] = SubSeq(@, 1, n)] : n \in {1, 2}}
     ELSE {})

ArgLists(pkts) ==
    {pkts} \cup UNION {{[pkts EXCEPT ![i] = t] : t \in Tampered(pkts[i])} :
                          i \in 1..Len(pkts)}

FieldNames == {"vBatAverage", "OBT", "OBT_s", "vBat"}

\* init_crc values and bytes handed directly to crc16_buypass
InitValues == {0, POLY, 65535}
CrcBytes == {0, 1, 255}

-----------------------------------------------------------------------------
(* The state machine *)

Untouched == [c \in Classes |-> NoCall]
Nothing == [c \in Classes |-> NoRet]

\* before either class body has run
InitLoad ==
    /\ byteS = 0 /\ byteA = 0
    /\ data = <<>> /\ packet_size = FrameSize
    /\ sections = NoneSections /\ crc_function = "None" /\ endianness = "big"
    /\ pc = [c \in Classes |-> "absent"]
    /\ call = Untouched /\ ret = Nothing
    /\ packets = <<>> /\ base = <<>> /\ flip = 0

\* both modules imported, a plain PacketParser about to be built
InitSplit ==
    /\ byteS = TableSize /\ byteA = TableSize
    /\ data \in SeqsUpTo(SplitBytes, MaxLen)
    /\ packet_size \in 1..MaxPacketSize
    /\ sections \in GenericLayouts
    /\ crc_function \in {"None", "SACDPacket.crc16_buypass"}
    /\ endianness \in {"big", "little"}
    /\ pc = [c \in Classes |-> IF c = "PacketParser" THEN "new" ELSE "absent"]
    /\ call = Untouched /\ ret = Nothing
    /\ packets = <<>> /\ base = data /\ flip = 0

\* a stream of frames about to be handed to the reference formats cs; with
\* flips, a stream of correct frames may have one bit flipped
InitFrames(cs, flips) ==
    /\ byteS = TableSize /\ byteA = TableSize
    /\ \E frames \in SeqsUpTo({Frame(Body(x, 6, 2), g) : x \in {0, 255}, g \in BOOLEAN},
                              MaxPackets) :
          /\ base = Join(frames)
          /\ flip \in IF flips /\ \A i \in 1..Len(frames) :
                           frames[i] = Frame(SubSeq(frames[i], 1, FrameSize - 2), TRUE)
                      THEN 0..(8 * Len(base))
                      ELSE {0}
    /\ data = FlipBit(base, flip)
    /\ packet_size = FrameSize
    /\ sections = NoneSections /\ crc_function = "None" /\ endianness = "big"
    /\ pc = [c \in Classes |-> IF c \in cs THEN "new" ELSE "absent"]
    /\ call = Untouched /\ ret = Nothing
    /\ packets = <<>>

InitCrc == InitFrames({"SACDPacket"}, TRUE)
InitBoth == InitFrames({"SACDPacket", "AquariusPacket"}, FALSE)

\* main.py: a stream of correct frames read from the file, about to be parsed
InitTlm ==
    /\ byteS = TableSize /\ byteA = TableSize
    /\ \E frames \in SeqsUpTo({Frame(Body(0, 1, t), TRUE) : t \in {0, 1}} \cup
                               {Frame(Body(1, 1, 0), TRUE), Frame(Body(0, 2, 0), TRUE)},
                              MaxList) :
          data = Join(frames)
    /\ packet_size = FrameSize
    /\ sections = NoneSections /\ crc_function = "None" /\ endianness = "big"
    /\ pc = [c \in Classes |-> IF c = "SACDPacket" THEN "new" ELSE "absent"]
    /\ call = Untouched /\ ret = Nothing
    /\ packets = <<>> /\ base = data /\ flip = 0

\* sacd.py: one round of `for byte in range(256)` in the class body, which
\* appends SACD_TableEntry(byte) to the table
SACD_BuildTable ==
    /\ byteS < TableSize
    /\ byteA \in {0, TableSize}
    /\ byteS' = byteS + 1
    /\ UNCHANGED <<byteA, data, packet_size, sections, crc_function, endianness,
                   pc, call, ret, packets, base, flip>>

\* aquarius.py: one round of `for byte in range(256)` in the class body, which
\* appends Aquarius_TableEntry(byte) to the table
Aquarius_BuildTable ==
    /\ byteA < TableSize
    /\ byteS \in {0, TableSize}
    /\ byteA' = byteA + 1
    /\ UNCHANGED <<byteS, data, packet_size, sections, crc_function, endianness,
                   pc, call, ret, packets, base, flip>>

\* a call of the static method crc16_buypass of a loaded class
Checksum ==
    \E c \in {"SACDPacket", "AquariusPacket"}, init_crc \in InitValues,
       bytes \in SeqsUpTo(CrcBytes, MaxCrcLen) :
        /\ (IF c = "SACDPacket" THEN byteS ELSE byteA) = TableSize
        /\ (IF c = "SACDPacket" THEN byteA ELSE byteS) \in {0, TableSize}
        /\ call' = [call EXCEPT ![c] = [op |-> "crc16_buypass", data |-> bytes,
                                        init_crc |-> init_crc]]
        /\ ret' = [ret EXCEPT ![c] =
                      Return(IF c = "SACDPacket"
                             THEN SACD_crc16_buypass(bytes, init_crc)
                             ELSE Aquarius_crc16_buypass(bytes, init_crc))]
        /\ UNCHANGED <<byteS, byteA, data, packet_size, sections, crc_function,
                       endianness, pc, packets, base, flip>>

\* c(data, packet_size, ...): PacketParser.__init__ through the subclass
Construct ==
    \E c \in Classes :
        /\ pc[c] = "new"
        /\ call' = [call EXCEPT ![c] = [op |-> "__init__"]]
        /\ IF InitRaises(Self(c))
           THEN /\ pc' = [pc EXCEPT ![c] = "raised"]
                /\ ret' = [ret EXCEPT ![c] =
                              Raise("RuntimeError", "not all packets are complete.")]
           ELSE /\ pc' = [pc EXCEPT ![c] = "ready"]
                /\ ret' = [ret EXCEPT ![c] = Return("None")]
        /\ UNCHANGED <<byteS, byteA, data, packet_size, sections, crc_function,
                       endianness, packets, base, flip>>

\* parser.get_packets(packets_with_sections, check_crc) on a built parser
GetPackets ==
    \E c \in Classes, packets_with_sections \in BOOLEAN, check_crc \in BOOLEAN :
        /\ pc[c] = "ready"
        /\ call[c].op = "__init__"
        /\ call' = [call EXCEPT ![c] =
                       [op |-> "get_packets",
                        packets_with_sections |-> packets_with_sections,
                        check_crc |-> check_crc]]
        /\ ret' = [ret EXCEPT ![c] =
                      get_packets(Self(c), packets_with_sections, check_crc)]
        /\ UNCHANGED <<byteS, byteA, data, packet_size, sections, crc_function,
                       endianness, pc, packets, base, flip>>

\* main.py: packets = packet_parser.get_packets(packets_with_sections=True,
\*                                               check_crc=args.check_crc)
MainGetPackets ==
    \E check_crc \in BOOLEAN :
        LET r == get_packets(Self("SACDPacket"), TRUE, check_crc)
        IN  /\ pc["SACDPacket"] = "ready"
            /\ call["SACDPacket"].op = "__init__"
            /\ call' = [call EXCEPT !["SACDPacket"] =
                           [op |-> "get_packets", packets_with_sections |-> TRUE,
                            check_crc |-> check_crc]]
            /\ ret' = [ret EXCEPT !["SACDPacket"] = r]
            /\ packets' = IF r.kind = "return" THEN r.value ELSE packets
            /\ UNCHANGED <<byteS, byteA, data, packet_size, sections, crc_function,
                           endianness, pc, base, flip>>

\* sorted() builds a new list: the list handed in is what it was
ListAfterSorted(pkts, result) == pkts

\* main.py: packets = packet_parser.order_packets(lst), lst the caller's list
\* or a tampered copy of it; a raise leaves the variable as it was
OrderPackets ==
    \E lst \in ArgLists(packets) :
        LET r == order_packets(Self("SACDPacket"), lst)
        IN  /\ pc["SACDPacket"] = "ready"
            /\ call["SACDPacket"].op = "get_packets"
            /\ ret["SACDPacket"].kind = "return"
            /\ call' = [call EXCEPT !["SACDPacket"] =
                           [op |-> "order_packets", packets |-> lst,
                            after |-> ListAfterSorted(lst, r)]]
            /\ ret' = [ret EXCEPT !["SACDPacket"] = r]
            /\ packets' = IF r.kind = "return" THEN r.value ELSE packets
            /\ UNCHANGED <<byteS, byteA, data, packet_size, sections, crc_function,
                           endianness, pc, base, flip>>

\* the parser has handed the caller a packet list and no telemetry was asked yet
ListInHand ==
    /\ pc["SACDPacket"] = "ready"
    /\ call["SACDPacket"].op \in {"get_packets", "order_packets"}
    /\ ret["SACDPacket"].kind = "return"

\* parser.get_telemetry_value_by_name(field_name, pkt), pkt a packet of the
\* caller's list or a tampered copy of one
Decode ==
    \E field_name \in FieldNames, i \in 1..Len(packets) :
        \E pkt \in {packets[i]} \cup Tampered(packets[i]) :
            /\ ListInHand
            /\ call' = [call EXCEPT !["SACDPacket"] =
                           [op |-> "get_telemetry_value_by_name",
                            field_name |-> field_name, packet |-> pkt]]
            /\ ret' = [ret EXCEPT !["SACDPacket"] =
                          get_telemetry_value_by_name(Self("SACDPacket"),
                                                      field_name, pkt)]
            /\ UNCHANGED <<byteS, byteA, data, packet_size, sections, crc_function,
                           endianness, pc, packets, base, flip>>

\* parser.get_all_telemetry_values_by_name(field_name, lst, return_unit)
DecodeAll ==
    \E field_name \in FieldNames, lst \in ArgLists(packets), return_unit \in BOOLEAN :
        /\ ListInHand
        /\ call' = [call EXCEPT !["SACDPacket"] =
                       [op |-> "get_all_telemetry_values_by_name",
                        field_name |-> field_name, packets |-> lst,
                        return_unit |-> return_unit]]
        /\ ret' = [ret EXCEPT !["SACDPacket"] =
                      get_all_telemetry_values_by_name(Self("SACDPacket"),
                                                       field_name, lst, return_unit)]
        /\ UNCHANGED <<byteS, byteA, data, packet_size, sections, crc_function,
                       endianness, pc, packets, base, flip>>

NextLoad == SACD_BuildTable \/ Aquarius_BuildTable \/ Checksum
SpecLoad == InitLoad /\ [][NextLoad]_vars

NextSplit == Construct \/ GetPackets
SpecSplit == InitSplit /\ [][NextSplit]_vars

SpecCrc == InitCrc /\ [][NextSplit]_vars

SpecBoth == InitBoth /\ [][NextSplit]_vars

NextTlm == Construct \/ MainGetPackets \/ OrderPackets \/ Decode \/ DecodeAll
SpecTlm == InitTlm /\ [][NextTlm]_vars

-----------------------------------------------------------------------------
(* Properties: packet splitting and section layouts (SpecSplit) *)

PP == "PacketParser"

\* the j-th packet_size-byte slice of the stream
SliceOfData(j) == SubSeq(data, (j - 1) * packet_size + 1, j * packet_size)

\* the last call was get_packets and it handed back a list
GotPackets(c) == call[c].op = "get_packets" /\ ret[c].kind = "return"

\* ... of structured packets (sections asked for and a layout present)
GotStructured(c) ==
    GotPackets(c) /\ call[c].packets_with_sections /\ ~Falsy(Self(c).sections)

\* C1: construction raises exactly when len(buffer) % packet_size != 0, and
\* then no call ever returns packets; a successful split yields
\* len(buffer) / packet_size packets of packet_size bytes each, in buffer order
C1_Framing ==
    /\ pc[PP] \in {"ready", "raised"} =>
          (pc[PP] = "raised" <=> Len(data) % packet_size # 0)
    /\ pc[PP] = "raised" => ret[PP].kind = "raise" /\ call[PP].op = "__init__"
    /\ GotPackets(PP) =>
          /\ Len(data) % packet_size = 0
          /\ Len(ret[PP].value) = Len(data) \div packet_size
          /\ \A j \in 1..Len(ret[PP].value) :
                IF GotStructured(PP)
                THEN Sum([i \in 1..Len(sections.items) |->
                             Len(ret[PP].value[j][sections.items[i][1]])]) = packet_size
                ELSE /\ ret[PP].value[j] = SliceOfData(j)
                     /\ Len(ret[PP].value[j]) = packet_size

C1_Witness ==
    /\ GotPackets(PP) /\ ~GotStructured(PP)
    /\ Len(ret[PP].value) >= 2 /\ packet_size >= 2
    /\ ret[PP].value[1] # ret[PP].value[2]

\* C2: under a layout whose lengths sum to packet_size every structured packet
\* holds, per section, the bytes at the section's cumulative offset, and its
\* sections joined in layout order are the packet's slice of the stream
C2_RoundTrip ==
    GotStructured(PP) /\ Sum(Values(sections)) = packet_size =>
        \A j \in 1..Len(ret[PP].value) :
            LET pkt == ret[PP].value[j]
                raw == SliceOfData(j)
            IN  /\ DOMAIN pkt = KeySet(sections)
                /\ \A i \in 1..Len(sections.items) :
                      LET before == Sum(SubSeq(Values(sections), 1, i - 1))
                      IN  pkt[sections.items[i][1]] =
                              SubSeq(raw, before + 1, before + sections.items[i][2])
                /\ Join([i \in 1..Len(sections.items) |-> pkt[sections.items[i][1]]]) = raw

C2_Witness ==
    /\ GotStructured(PP) /\ Len(ret[PP].value) >= 2
    /\ Keys(sections) = <<"A", "B">>
    /\ ret[PP].value[1] # ret[PP].value[2]
    /\ ret[PP].value[2]["A"] # ret[PP].value[2]["B"]

LayoutError == Raise("RuntimeError", "Section layout does not match packet size.")

\* C8 as stated: structured packets come only from a layout that sums to
\* packet_size, and asking for structured packets under any layout that does
\* not sum to packet_size raises the layout error
C8_AnyLayout ==
    /\ GotStructured(PP) => Sum(Values(sections)) = packet_size
    /\ ( /\ call[PP].op = "get_packets" /\ call[PP].packets_with_sections
         /\ ~sections.isNone /\ Sum(Values(sections)) # packet_size )
       => ret[PP] = LayoutError

\* C8 amended: the same for every layout with at least one section, whatever
\* the stream (empty included) and whatever check_crc and the CRC function are
C8_NonEmptyLayout ==
    /\ GotStructured(PP) => Sum(Values(sections)) = packet_size
    /\ ( /\ call[PP].op = "get_packets" /\ call[PP].packets_with_sections
         /\ ~sections.isNone /\ sections.items # <<>>
         /\ Sum(Values(sections)) # packet_size )
       => ret[PP] = LayoutError

C8_Witness ==
    /\ call[PP].op = "get_packets" /\ call[PP].packets_with_sections
    /\ call[PP].check_crc /\ crc_function = "None"
    /\ data = <<>> /\ sections.items # <<>>
    /\ Sum(Values(sections)) # packet_size
    /\ ret[PP] = LayoutError

-----------------------------------------------------------------------------
(* Properties: CRC validation (SpecCrc, SpecBoth) *)

SACD == "SACDPacket"
AQ == "AquariusPacket"

\* the j-th frame of a stream
FrameOf(stream, j) == SubSeq(stream, (j - 1) * FrameSize + 1, j * FrameSize)
NFrames(stream) == Len(stream) \div FrameSize

\* the frame's last two bytes, big-endian, are the CRC-16/BUYPASS of the rest
GoodFrame(f) ==
    256 * f[FrameSize - 1] + f[FrameSize] = RefCrc(SubSeq(f, 1, FrameSize - 2), 0)

AllGood(stream) == \A j \in 1..NFrames(stream) : GoodFrame(FrameOf(stream, j))

\* bit number b of the stream lies outside the CRC section of its frame
OutsideCrc(b) == ((b - 1) \div 8) % FrameSize < FrameSize - 2

CheckedCrc(c) ==
    call[c].op = "get_packets" /\ call[c].packets_with_sections /\ call[c].check_crc

IsCrcMismatch(r) == r.kind = "raise" /\ r.msg = "CRC mismatch in packet"

\* C3: a stream of correctly checksummed frames validates; with one bit
\* flipped anywhere outside a CRC section validation raises the CRC mismatch
C3_CrcCorrect ==
    CheckedCrc(SACD) /\ AllGood(base) =>
        /\ flip = 0 => ret[SACD].kind = "return"
        /\ flip # 0 /\ OutsideCrc(flip) => IsCrcMismatch(ret[SACD])

C3_Witness ==
    /\ CheckedCrc(SACD) /\ AllGood(base) /\ NFrames(base) = 2
    /\ flip > 8 * FrameSize /\ OutsideCrc(flip)
    /\ IsCrcMismatch(ret[SACD])

\* the 0-based index of the first frame of the stream with a wrong CRC
FirstBad(stream) ==
    CHOOSE j \in 0..(NFrames(stream) - 1) :
        /\ ~GoodFrame(FrameOf(stream, j + 1))
        /\ \A k \in 0..(j - 1) : GoodFrame(FrameOf(stream, k + 1))

\* C4: over a stream with a wrong CRC, validation raises the CRC mismatch and
\* reports the 0-based index of the lowest-indexed failing packet
C4_ZeroBasedIndex ==
    CheckedCrc(SACD) /\ ~AllGood(data) =>
        IsCrcMismatch(ret[SACD]) /\ ret[SACD].index = FirstBad(data)

\* C10: on the same stream, get_packets(True, True) of the two formats both
\* return the same packets or both raise the CRC mismatch for the same packet
C10_SameBehaviour ==
    CheckedCrc(SACD) /\ CheckedCrc(AQ) =>
        /\ ret[AQ].kind = ret[SACD].kind
        /\ ret[SACD].kind = "return" => ret[AQ].value = ret[SACD].value
        /\ ret[SACD].kind = "raise" =>
              /\ IsCrcMismatch(ret[SACD]) /\ IsCrcMismatch(ret[AQ])
              /\ ret[AQ].index + 1 = ret[SACD].index

-----------------------------------------------------------------------------
(* Properties: ordering and telemetry (SpecTlm) *)

\* the raw on-board time of a structured packet: bytes 1 and 2 of CDH, big-endian
RawOBT(pkt) == 256 * pkt["CDH"][2] + pkt["CDH"][3]

Sorted(c) == call[c].op = "order_packets" /\ ret[c].kind = "return"

\* the bijections of 1..n
Perms(n) == {f \in [1..n -> 1..n] : \A i, j \in 1..n : f[i] = f[j] => i = j}

\* C5: order_packets returns a permutation of its input, ascending by on-board
\* time, packets of equal on-board time in their input order, and the list
\* handed in is afterwards what it was
C5_StableOrder ==
    Sorted(SACD) =>
        LET in == call[SACD].packets
            out == ret[SACD].value
        IN  /\ Len(out) = Len(in)
            /\ \E f \in Perms(Len(in)) :
                  /\ \A i \in 1..Len(in) : out[i] = in[f[i]]
                  /\ \A i, j \in 1..Len(in) :
                        i < j => \/ RawOBT(out[i]) < RawOBT(out[j])
                                 \/ RawOBT(out[i]) = RawOBT(out[j]) /\ f[i] < f[j]
            /\ call[SACD].after = in

C5_Witness ==
    /\ Sorted(SACD) /\ Len(ret[SACD].value) = 3
    /\ ret[SACD].value # call[SACD].packets
    /\ RawOBT(ret[SACD].value[1]) = RawOBT(ret[SACD].value[2])
    /\ ret[SACD].value[1] # ret[SACD].value[2]

DecodedAll(c) == call[c].op = "get_all_telemetry_values_by_name"

\* the decode of each packet of the list handed to the last call
EachDecode(c) ==
    [i \in 1..Len(call[c].packets) |->
        get_telemetry_value_by_name(Self(c), call[c].field_name, call[c].packets[i])]

\* the values of a returned result, with or without the unit beside them
ValuesOf(c) == IF call[c].return_unit THEN ret[c].value[1] ELSE ret[c].value

\* one value per packet and in packet order when every packet decodes, a
\* failure of the whole call when any packet does not
AllOrNothing(c) ==
    /\ (\A i \in 1..Len(call[c].packets) : EachDecode(c)[i].kind = "return") =>
          /\ ret[c].kind = "return"
          /\ Len(ValuesOf(c)) = Len(call[c].packets)
          /\ \A i \in 1..Len(call[c].packets) : ValuesOf(c)[i] = EachDecode(c)[i].value
    /\ (\E i \in 1..Len(call[c].packets) : EachDecode(c)[i].kind = "raise") =>
          ret[c].kind = "raise"

\* C6 as stated: get_all_telemetry_values_by_name is all-or-nothing and
\* order-preserving for every field name, list and return_unit
C6_AllOrNothing == DecodedAll(SACD) => AllOrNothing(SACD)

\* the unit was asked for and the field map has none for this name
NoUnit(c) ==
    /\ call[c].return_unit
    /\ \/ call[c].field_name \notin DOMAIN SACD_fields
       \/ "unit" \notin DOMAIN SACD_fields[call[c].field_name]

\* C6 amended: a call that asks for the unit of a name without one fails
\* whatever the list holds; every other call is all-or-nothing and
\* order-preserving, and hands back the field's unit when asked
C6_AllOrNothingUnlessNoUnit ==
    DecodedAll(SACD) =>
        IF NoUnit(SACD) THEN ret[SACD].kind = "raise"
        ELSE /\ AllOrNothing(SACD)
             /\ ret[SACD].kind = "return" /\ call[SACD].return_unit =>
                   ret[SACD].value[2] = SACD_fields[call[SACD].field_name].unit

C6_Witness ==
    /\ DecodedAll(SACD) /\ ret[SACD].kind = "return" /\ call[SACD].return_unit
    /\ Len(ret[SACD].value[1]) = 3
    /\ ret[SACD].value[1][1] # ret[SACD].value[1][2]
    /\ call[SACD].field_name = "OBT_s"

Decoded(c) == call[c].op = "get_telemetry_value_by_name"

RECURSIVE BigEndian(_)
\* the unsigned big-endian number spelled by a byte string
BigEndian(bytes) ==
    IF bytes = <<>> THEN 0
    ELSE 256 * BigEndian(SubSeq(bytes, 1, Len(bytes) - 1)) + bytes[Len(bytes)]

\* raw * k + offset for the descriptors of the field map, which are unsigned
\* and big-endian: vBatAverage has k = 0.01873128 and offset = -38.682956
Physical(name, raw) ==
    IF name = "vBatAverage"
    THEN [num |-> 234141 * raw - 483536950, den |-> 12500000]
    ELSE [num |-> raw, den |-> 1]

\* C7: a decode fails with the unknown-field error for a name outside the
\* field map, with the missing-section error when the packet lacks the
\* descriptor's section, with the size-mismatch error when position + size
\* runs past the section; otherwise it returns the physical value of exactly
\* the size bytes at [position, position + size) of the section
C7_Decode ==
    Decoded(SACD) =>
        LET name == call[SACD].field_name
            pkt == call[SACD].packet
        IN  IF name \notin DOMAIN SACD_fields
            THEN ret[SACD] = Raise("ValueError", "Invalid field")
            ELSE LET d == SACD_fields[name]
                 IN  IF d.section \notin DOMAIN pkt
                     THEN ret[SACD] = Raise("KeyError", "Section not found in packet.")
                     ELSE IF d.position + d.size > Len(pkt[d.section])
                     THEN ret[SACD] = Raise("ValueError", "size mismatch")
                     ELSE ret[SACD] =
                              Return(Physical(name,
                                  BigEndian(SubSeq(pkt[d.section], d.position + 1,
                                                   d.position + d.size))))

C7_Witness ==
    /\ Decoded(SACD) /\ call[SACD].field_name = "OBT"
    /\ ret[SACD].kind = "return" /\ ret[SACD].value.num = 257

-----------------------------------------------------------------------------
(* Properties: the CRC tables (SpecLoad) *)

\* C9: every entry built so far of either table is the 16-bit MSB-first
\* 8-step shift/XOR of its index, the two finished tables are equal entry for
\* entry, and the checksum of no bytes is the initial value handed in
C9_TableDeterminism ==
    /\ \A b \in 1..byteS :
          /\ SACD_CRC16_BUYPASS_TABLE[b] \in 0..65535
          /\ SACD_CRC16_BUYPASS_TABLE[b] = RefTable[b - 1]
    /\ \A b \in 1..byteA :
          /\ Aquarius_CRC16_BUYPASS_TABLE[b] \in 0..65535
          /\ Aquarius_CRC16_BUYPASS_TABLE[b] = RefTable[b - 1]
    /\ byteS = TableSize /\ byteA = TableSize =>
          /\ Len(SACD_CRC16_BUYPASS_TABLE) = TableSize
          /\ SACD_CRC16_BUYPASS_TABLE = Aquarius_CRC16_BUYPASS_TABLE
    /\ \A c \in {SACD, AQ} :
          call[c].op = "crc16_buypass" /\ call[c].data = <<>> =>
              ret[c] = Return(call[c].init_crc)

C9_Witness ==
    /\ byteS = TableSize /\ byteA = TableSize
    /\ call[SACD].op = "crc16_buypass" /\ call[SACD].data = <<>>
    /\ call[SACD].init_crc = 65535 /\ ret[SACD] = Return(65535)
    /\ call[AQ].op = "crc16_buypass" /\ call[AQ].data = <<>>
    /\ call[AQ].init_crc = 0 /\ ret[AQ] = Return(0)

====
